---- MODULE Spec2Model ----
(***************************************************************************)
(* Model of the Grad Cafe crawl-and-load pipeline (module_5):              *)
(*   - scrape_new_entries  (src/module_5/src/scrape.py)     : SpecCrawl    *)
(*   - the /scrape and /refresh_queries routes and their running flag      *)
(*     (src/module_5/src/app/pages.py)                      : SpecGate     *)
(*   - insert_data         (src/module_5/src/load_data.py)  : SpecLoad     *)
(*   - clean_data and its helpers (src/module_5/src/clean.py)              *)
(*                                          : SpecNormalize, SpecClean     *)
(*   - scrape_survey_page, _parse_badges_row, scrape_page (scrape.py)      *)
(*                                : SpecScanPage, SpecBadges, SpecDetail   *)
(*   - scrape_new_entries when every fetch returns          : SpecCrawlFair*)
(*   - successive /scrape and /refresh_queries runs         : SpecRuns     *)
(***************************************************************************)
EXTENDS Integers, Sequences, FiniteSets, TLC

\* ---------------------------------------------------------------- bounds
MaxPage == 2
MaxRows == 2
MaxTarget == 2
MaxBatch == 2
NumReq == 3
MaxFileLen == 2
MaxLoads == 3
MaxEntries == 2
MaxScanRows == 3
MaxBadges == 2
MaxBlocks == 2
MaxRuns == 2

\* ------------------------------------------------------------- variables
VARIABLES
  \* scrape_new_entries: arguments and environment
  max_id, target_count, batch_size, listing,
  \* scrape_new_entries: locals, the two executors and the return value
  pc, page_num, all_entries, fut, mapIdx, excCaught, finishOrder, dfut, returned,
  \* len(all_entries) just before the truncation of scrape.py:197
  collected,
  \* pages.py: the running flag and the request threads
  running, rpc, rkind, resp, sawBusy, work,
  \* load_data.py: the applicants table
  table, serial, lastFile, prevTable, repeated, loads,
  \* clean.py, one record: the entry, the record being built, the position
  nEntry, nRecord, npc,
  \* clean.py, clean_data: arguments, loop position and result
  raw_entries, clean_target, heap, cleaned, cIdx, cResult, cpc,
  \* scrape.py, scrape_survey_page: the table rows, the cursor, the result
  rows, rowIdx, scanned, ppc,
  \* scrape.py, _parse_badges_row: the badge texts, the cursor, the result
  badges, bIdx, record_data,
  \* scrape.py, scrape_page: the stub, the detail page, the field map, the result
  page_entry, detail_page, dPairs, dIdx, dResult, dpc,
  \* pages.py, successive /scrape and /refresh_queries runs: the result ids of
  \* the applicants table, the cleaned file, the stubs crawls have collected
  \* so far, the number of crawls
  db, cleaned_file, found, runs

crawlVars == <<max_id, target_count, batch_size, listing, pc, page_num,
               all_entries, fut, mapIdx, excCaught, finishOrder, dfut, returned,
               collected>>
gateVars == <<running, rpc, rkind, resp, sawBusy, work>>
loadVars == <<table, serial, lastFile, prevTable, repeated, loads>>
normVars == <<nEntry, nRecord, npc>>
cleanVars == <<raw_entries, clean_target, heap, cleaned, cIdx, cResult, cpc>>
pageVars == <<rows, rowIdx, scanned, ppc>>
badgeVars == <<badges, bIdx, record_data>>
detailVars == <<page_entry, detail_page, dPairs, dIdx, dResult, dpc>>
runVars == <<db, cleaned_file, found, runs>>
extVars == <<detailVars, runVars>>
pureVars == <<normVars, cleanVars, pageVars, badgeVars, extVars>>
vars == <<crawlVars, gateVars, loadVars, pureVars>>

\* ------------------------------------------------------------- utilities
SeqsUpTo(S, n) == UNION {[1..m -> S] : m \in 0..n}

Take(s, n) == SubSeq(s, 1, IF n < Len(s) THEN n ELSE Len(s))

RECURSIVE SumLen(_, _)
SumLen(f, S) ==
  IF S = {} THEN 0
  ELSE LET x == CHOOSE y \in S : TRUE IN Len(f[x]) + SumLen(f, S \ {x})

\* =========================================================================
\* scrape_new_entries
\* =========================================================================

\* ids a stub can carry: int(href segment) that is truthy (scrape.py:43,94);
\* a negative segment such as "/result/-1" parses and is truthy.  One id of
\* each kind the filter can tell apart: not positive, positive and at most
\* the watermark 1, above every watermark.
StubIds == {-1, 1, 2}

\* what one call scrape_survey_page(p) does: return a list of stubs (an
\* unavailable page returns the empty list) or raise
\* ("unavailable": the fetch answered non-200 or raised urllib3 HTTPError,
\* such as a refused connection or a timeout, scrape.py:64-71)
PageOutcomes ==
  [status : {"ok"}, rows : SeqsUpTo(StubIds, MaxRows)]
    \cup {[status |-> "unavailable", rows |-> <<>>], [status |-> "raise", rows |-> <<>>]}

\* scrape_survey_page let the failure of its fetch propagate
ScanRaises_fetchToo(status) == status \in {"raise", "unavailable"}

\* whether scrape_survey_page raises: a failed fetch is answered with []
\* (scrape.py:64-71), an exception of the scan itself is not caught
ScanRaises(status) == status = "raise"

\* the except clause around executor.map caught only the fetch errors
CaughtByCrawl_httpOnly(exc) == exc = "HTTPError"

\* except Exception around list(executor.map(...)) (scrape.py:182-183)
CaughtByCrawl(exc) == exc \in {"HTTPError", "Exception"}

\* page numbers a crawl can reach; pages after MaxPage have no rows
LastPage == MaxPage + 2 * MaxBatch
PageSpace == 1..LastPage

\* the sources: what each of the pages 1..MaxPage returns, with at most
\* MaxRows stubs in all
Listings ==
  {l \in [1..MaxPage -> PageOutcomes] :
     SumLen([p \in 1..MaxPage |-> l[p].rows], 1..MaxPage) <= MaxRows}

ListingOf(p) ==
  IF p \in 1..MaxPage THEN listing[p] ELSE [status |-> "ok", rows |-> <<>>]

\* max_id is <<>> for None and <<m>> for the integer m; get_max_id returns 0
\* for an empty table (query_data.py:183)
Watermarks == {<<>>, <<0>>, <<1>>}

\* the filter ran for every watermark but None
Truthy_notNone(m) == m # <<>>

\* `if max_id:` (scrape.py:187)
Truthy(m) == m # <<>> /\ m[1] # 0

\* scrape.py:187-188
FilterByMaxId(entries, m) ==
  IF Truthy(m) THEN SelectSeq(entries, LAMBDA e : e > m[1]) ELSE entries

\* range(page_num, page_num + batch_size) (scrape.py:176)
PageRange(start, size) == start..(start + size - 1)

\* `len(all_entries) < target_count` (scrape.py:175)
WhileCond_short(len, target) == len < target - 1
WhileCond(len, target) == len < target

\* the order in which executor.map yields the results: submission order
ResultOrder_completion(start, size, finished) == finished
ResultOrder(start, size, finished) == [i \in 1..size |-> start + i - 1]

\* [e for sublist in results for e in sublist] (scrape.py:185)
RECURSIVE Flatten(_)
Flatten(order) ==
  IF order = <<>> THEN <<>>
  ELSE ListingOf(Head(order)).rows \o Flatten(Tail(order))

\* leaving the `with ThreadPoolExecutor` block: shutdown(wait=True)
ExecutorJoined_nowait(pages) == TRUE
ExecutorJoined(pages) ==
  \A p \in pages : fut[p] \in {"done", "raised", "cancelled"}

\* `if not batch_entries: break` (scrape.py:190-192)
StopEarly_never(batch_entries) == FALSE
StopEarly(batch_entries) == batch_entries = <<>>

\* all_entries[:target_count] (scrape.py:197)
Truncate_none(entries, target) == entries
Truncate(entries, target) == Take(entries, target)

\* [d for d in detailed if d] (scrape.py:203)
RECURSIVE DropNone(_, _)
DropNone(entries, states) ==
  IF entries = <<>> THEN <<>>
  ELSE (IF Head(states) = "ok" THEN <<Head(entries)>> ELSE <<>>)
         \o DropNone(Tail(entries), Tail(states))

CrawlStart ==
  /\ pc = "while"
  /\ page_num = 1
  /\ all_entries = <<>>
  /\ fut = [p \in PageSpace |-> "none"]
  /\ mapIdx = 0
  /\ excCaught = FALSE
  /\ finishOrder = <<>>
  /\ dfut = <<>>
  /\ returned = <<>>
  /\ collected = 0

CrawlIdle ==
  /\ max_id = <<>>
  /\ target_count = 0
  /\ batch_size = 1
  /\ listing = [p \in 1..MaxPage |-> [status |-> "ok", rows |-> <<>>]]
  /\ CrawlStart

\* loop test true: submit one scrape_survey_page per page (scrape.py:175-181)
SubmitBatch ==
  /\ pc = "while"
  /\ WhileCond(Len(all_entries), target_count)
  /\ page_num + batch_size - 1 <= LastPage
  /\ fut' = [p \in PageSpace |->
               IF p \in PageRange(page_num, batch_size) THEN "pending" ELSE fut[p]]
  /\ mapIdx' = 0
  /\ excCaught' = FALSE
  /\ finishOrder' = <<>>
  /\ pc' = "map"
  /\ UNCHANGED <<gateVars, loadVars, pureVars, max_id, target_count, batch_size, listing, page_num,
                 all_entries, dfut, returned, collected>>

\* loop test false (scrape.py:175)
ExitLoop ==
  /\ pc = "while"
  /\ ~WhileCond(Len(all_entries), target_count)
  /\ pc' = "truncate"
  /\ UNCHANGED <<gateVars, loadVars, pureVars, max_id, target_count, batch_size, listing, page_num,
                 all_entries, fut, mapIdx, excCaught, finishOrder, dfut, returned, collected>>

\* a pool thread picks up the scan of page p
StartScan(p) ==
  /\ fut[p] = "pending"
  /\ fut' = [fut EXCEPT ![p] = "running"]
  /\ UNCHANGED <<gateVars, loadVars, pureVars, max_id, target_count, batch_size, listing, pc, page_num,
                 all_entries, mapIdx, excCaught, finishOrder, dfut, returned, collected>>

\* scrape_survey_page(p) returns or raises (scrape.py:50-101)
FinishScan(p) ==
  /\ fut[p] = "running"
  /\ fut' = [fut EXCEPT ![p] =
               IF ScanRaises(ListingOf(p).status) THEN "raised" ELSE "done"]
  /\ finishOrder' = Append(finishOrder, p)
  /\ UNCHANGED <<gateVars, loadVars, pureVars, max_id, target_count, batch_size, listing, pc, page_num,
                 all_entries, mapIdx, excCaught, dfut, returned, collected>>

\* list(executor.map(...)) takes the next result in submission order; a
\* raised result cancels the futures not yet started and is caught
\* (scrape.py:180-183)
CollectResult ==
  /\ pc = "map"
  /\ LET q == page_num + mapIdx IN
       /\ fut[q] \in {"done", "raised"}
       /\ IF fut[q] = "done"
            THEN /\ mapIdx' = mapIdx + 1
                 /\ pc' = IF mapIdx + 1 = batch_size THEN "join" ELSE "map"
                 /\ UNCHANGED <<fut, excCaught>>
            ELSE /\ excCaught' = CaughtByCrawl("Exception")
                 /\ fut' = [p \in PageSpace |->
                              IF p \in PageRange(page_num, batch_size) /\ p > q
                                 /\ fut[p] = "pending"
                              THEN "cancelled" ELSE fut[p]]
                 /\ pc' = IF CaughtByCrawl("Exception") THEN "join" ELSE "propagated"
                 /\ UNCHANGED mapIdx
  /\ UNCHANGED <<gateVars, loadVars, pureVars, max_id, target_count, batch_size, listing, page_num,
                 all_entries, finishOrder, dfut, returned, collected>>

\* the batch's stubs were not added to all_entries
Extend_nothing(all, batch_entries) == all

\* all_entries.extend(batch_entries) (scrape.py:194)
Extend(all, batch_entries) == all \o batch_entries

\* the next batch started at the same page again
NextPage_same(page, size) == page

\* page_num += batch_size (scrape.py:195)
NextPage(page, size) == page + size

\* end of the with block, then flatten, filter, break or extend
\* (scrape.py:179-195)
JoinBatch ==
  /\ pc = "join"
  /\ ExecutorJoined(PageRange(page_num, batch_size))
  /\ LET results == IF excCaught THEN <<>>
                    ELSE Flatten(ResultOrder(page_num, batch_size, finishOrder))
         batch_entries == FilterByMaxId(results, max_id)
     IN IF StopEarly(batch_entries)
          THEN /\ pc' = "truncate"
               /\ UNCHANGED <<all_entries, page_num>>
          ELSE /\ all_entries' = Extend(all_entries, batch_entries)
               /\ page_num' = NextPage(page_num, batch_size)
               /\ pc' = "while"
  /\ UNCHANGED <<gateVars, loadVars, pureVars, max_id, target_count, batch_size, listing, fut, mapIdx,
                 excCaught, finishOrder, dfut, returned, collected>>

\* truncate and submit one scrape_page per stub (scrape.py:197-201)
TruncateAndSubmit ==
  /\ pc = "truncate"
  /\ all_entries' = Truncate(all_entries, target_count)
  /\ dfut' = [i \in 1..Len(all_entries') |-> "pending"]
  /\ collected' = Len(all_entries)
  /\ pc' = "detail"
  /\ UNCHANGED <<gateVars, loadVars, pureVars, max_id, target_count, batch_size, listing, page_num, fut,
                 mapIdx, excCaught, finishOrder, returned>>

\* a pool thread calls scrape_page(all_entries[i])
StartDetail(i) ==
  /\ pc = "detail"
  /\ i \in DOMAIN dfut
  /\ dfut[i] = "pending"
  /\ dfut' = [dfut EXCEPT ![i] = "running"]
  /\ UNCHANGED <<gateVars, loadVars, pureVars, max_id, target_count, batch_size, listing, pc, page_num,
                 all_entries, fut, mapIdx, excCaught, finishOrder, returned, collected>>

\* scrape_page returns a record, or None on any failure (scrape.py:121-146)
FinishDetail(i) ==
  /\ pc = "detail"
  /\ i \in DOMAIN dfut
  /\ dfut[i] = "running"
  /\ \E r \in {"ok", "none"} : dfut' = [dfut EXCEPT ![i] = r]
  /\ UNCHANGED <<gateVars, loadVars, pureVars, max_id, target_count, batch_size, listing, pc, page_num,
                 all_entries, fut, mapIdx, excCaught, finishOrder, returned, collected>>

\* list(executor.map(scrape_page, ...)), end of the with block, return
\* (scrape.py:200-203)
ReturnDetailed ==
  /\ pc = "detail"
  /\ \A i \in DOMAIN dfut : dfut[i] \in {"ok", "none"}
  /\ returned' = DropNone(all_entries, dfut)
  /\ pc' = "done"
  /\ UNCHANGED <<gateVars, loadVars, pureVars, max_id, target_count, batch_size, listing, page_num,
                 all_entries, fut, mapIdx, excCaught, finishOrder, dfut, collected>>

CrawlNext ==
  \/ SubmitBatch
  \/ ExitLoop
  \/ \E p \in PageSpace : StartScan(p)
  \/ \E p \in PageSpace : FinishScan(p)
  \/ CollectResult
  \/ JoinBatch
  \/ TruncateAndSubmit
  \/ \E i \in 1..(MaxTarget + 1) : StartDetail(i)
  \/ \E i \in 1..(MaxTarget + 1) : FinishDetail(i)
  \/ ReturnDetailed

\* =========================================================================
\* pages.py: the running flag, POST /scrape and POST /refresh_queries
\* =========================================================================
Requests == 1..NumReq

\* the statements of the try block of scrape(), in order (pages.py:56-69)
ScrapeSteps == <<"get_max_id", "scrape_new_entries", "write_raw",
                 "clean_data", "write_precleaned", "clean_with_llm">>

CrawlSection == {ScrapeSteps[i] : i \in DOMAIN ScrapeSteps}

StepIndex(step) == CHOOSE i \in DOMAIN ScrapeSteps : ScrapeSteps[i] = step

\* `if _scraper_state["running"]:` of both routes (pages.py:51, 85)
Busy_scrapeOnly(kind, flag) == kind = "scrape" /\ flag
Busy(kind, flag) == flag

\* the flag after the finally clause (pages.py:76-77)
FlagAfterScrape_successOnly(flag, response) == IF response = 200 THEN FALSE ELSE flag
FlagAfterScrape(flag, response) == FALSE

\* the 409 return of scrape() sat inside the try block, so that its finally
\* clause ran
AfterBusy_finally(kind) == IF kind = "scrape" THEN "finally" ELSE "done"

\* where a request goes after `return {"busy": True}, 409`: out of the view
\* function, the return stands before the try block (pages.py:51-52, 85-86)
AfterBusy(kind) == "done"

GateIdle ==
  /\ running = FALSE
  /\ rpc = [r \in Requests |-> "idle"]
  /\ rkind = [r \in Requests |-> "none"]
  /\ resp = [r \in Requests |-> 0]
  /\ sawBusy = [r \in Requests |-> FALSE]
  /\ work = [r \in Requests |-> {}]

\* a request thread enters one of the two view functions
Arrive(r, kind) ==
  /\ rpc[r] = "idle"
  /\ rpc' = [rpc EXCEPT ![r] = "check"]
  /\ rkind' = [rkind EXCEPT ![r] = kind]
  /\ UNCHANGED <<crawlVars, loadVars, pureVars, running, resp, sawBusy, work>>

\* the busy test at the top of the route (pages.py:51-52, 85-86)
CheckFlag(r) ==
  /\ rpc[r] = "check"
  /\ sawBusy' = [sawBusy EXCEPT ![r] = running]
  /\ IF Busy(rkind[r], running)
       THEN /\ resp' = [resp EXCEPT ![r] = 409]
            /\ rpc' = [rpc EXCEPT ![r] = AfterBusy(rkind[r])]
       ELSE /\ rpc' = [rpc EXCEPT ![r] =
                         IF rkind[r] = "scrape" THEN "set" ELSE "exists"]
            /\ UNCHANGED resp
  /\ UNCHANGED <<crawlVars, loadVars, pureVars, running, rkind, work>>

\* _scraper_state["running"] = True (pages.py:54)
SetFlag(r) ==
  /\ rpc[r] = "set"
  /\ running' = TRUE
  /\ rpc' = [rpc EXCEPT ![r] = ScrapeSteps[1]]
  /\ UNCHANGED <<crawlVars, loadVars, pureVars, rkind, resp, sawBusy, work>>

\* one statement of the try block returns or raises (pages.py:55-75)
ScrapeStep(r, ok) ==
  /\ rpc[r] \in CrawlSection
  /\ work' = [work EXCEPT ![r] = @ \cup {rpc[r]}]
  /\ LET i == StepIndex(rpc[r]) IN
       IF ~ok
         THEN /\ resp' = [resp EXCEPT ![r] = 500]
              /\ rpc' = [rpc EXCEPT ![r] = "finally"]
         ELSE IF i = Len(ScrapeSteps)
           THEN /\ resp' = [resp EXCEPT ![r] = 200]
                /\ rpc' = [rpc EXCEPT ![r] = "finally"]
           ELSE /\ rpc' = [rpc EXCEPT ![r] = ScrapeSteps[i + 1]]
                /\ UNCHANGED resp
  /\ UNCHANGED <<crawlVars, loadVars, pureVars, running, rkind, sawBusy>>

\* finally: _scraper_state["running"] = False (pages.py:76-77)
Finally(r) ==
  /\ rpc[r] = "finally"
  /\ running' = FlagAfterScrape(running, resp[r])
  /\ rpc' = [rpc EXCEPT ![r] = "done"]
  /\ UNCHANGED <<crawlVars, loadVars, pureVars, rkind, resp, sawBusy, work>>

\* `if not cleaned_file.exists()` (pages.py:88-90)
RefreshExists(r, exists) ==
  /\ rpc[r] = "exists"
  /\ IF exists
       THEN /\ rpc' = [rpc EXCEPT ![r] = "load_data_to_db"]
            /\ UNCHANGED resp
       ELSE /\ resp' = [resp EXCEPT ![r] = 200]
            /\ rpc' = [rpc EXCEPT ![r] = "done"]
  /\ UNCHANGED <<crawlVars, loadVars, pureVars, running, rkind, sawBusy, work>>

\* load_data_to_db returns or raises (pages.py:92-98)
RefreshLoad(r, ok) ==
  /\ rpc[r] = "load_data_to_db"
  /\ work' = [work EXCEPT ![r] = @ \cup {"load_data_to_db"}]
  /\ resp' = [resp EXCEPT ![r] = IF ok THEN 200 ELSE 500]
  /\ rpc' = [rpc EXCEPT ![r] = "done"]
  /\ UNCHANGED <<crawlVars, loadVars, pureVars, running, rkind, sawBusy>>

GateNext ==
  \/ \E r \in Requests, kind \in {"scrape", "refresh"} : Arrive(r, kind)
  \/ \E r \in Requests : CheckFlag(r)
  \/ \E r \in Requests : SetFlag(r)
  \/ \E r \in Requests, ok \in BOOLEAN : ScrapeStep(r, ok)
  \/ \E r \in Requests : Finally(r)
  \/ \E r \in Requests, exists \in BOOLEAN : RefreshExists(r, exists)
  \/ \E r \in Requests, ok \in BOOLEAN : RefreshLoad(r, ok)

\* =========================================================================
\* load_data.py: insert_data on the applicants table
\* =========================================================================
NULL == "NULL"
Urls == {"u1", NULL}
Programs == {"a", "b"}

\* a JSONL row: a dict over some of the keys "URL" and "program"
FileRows ==
  UNION {[D -> Urls \cup Programs] : D \in SUBSET {"URL", "program"}}

WellTyped(row) ==
  /\ ("URL" \in DOMAIN row => row["URL"] \in Urls)
  /\ ("program" \in DOMAIN row => row["program"] \in Programs)

Files == SeqsUpTo({row \in FileRows : WellTyped(row)}, MaxFileLen)

\* `if not mapped_row or "url" not in mapped_row: continue` (load_data.py:116-119)
SkipsRow_nullToo(row) == "URL" \notin DOMAIN row \/ row["URL"] = NULL
SkipsRow(row) == "URL" \notin DOMAIN row

\* ON CONFLICT (url) DO NOTHING against url TEXT UNIQUE: NULLs never conflict
\* (load_data.py:80, 123-127)
Conflicts(t, url) == url # NULL /\ \E i \in DOMAIN t : t[i].url = url

\* one INSERT statement; the SERIAL default is drawn even when the row
\* conflicts (load_data.py:76, 121-128)
InsertRow(state, row) ==
  IF SkipsRow(row) THEN state
  ELSE IF Conflicts(state.table, row["URL"])
    THEN [state EXCEPT !.serial = @ + 1]
    ELSE [table |-> Append(state.table,
                      [p_id |-> state.serial,
                       url |-> row["URL"],
                       program |-> IF "program" \in DOMAIN row
                                   THEN row["program"] ELSE NULL]),
          serial |-> state.serial + 1]

\* for row in data: ...; conn.commit() (load_data.py:114-129)
RECURSIVE InsertData(_, _)
InsertData(state, data) ==
  IF data = <<>> THEN state
  ELSE InsertData(InsertRow(state, Head(data)), Tail(data))

LoadIdle ==
  /\ table = <<>>
  /\ serial = 1
  /\ lastFile = <<>>
  /\ prevTable = <<>>
  /\ repeated = FALSE
  /\ loads = 0

\* load_data_to_db(file, initial_load=False) on a non-empty file
\* (load_data.py:156-169)
Load(file) ==
  /\ loads < MaxLoads
  /\ file # <<>>
  /\ LET after == InsertData([table |-> table, serial |-> serial], file) IN
       /\ table' = after.table
       /\ serial' = after.serial
  /\ prevTable' = table
  /\ lastFile' = file
  /\ repeated' = (loads > 0 /\ file = lastFile)
  /\ loads' = loads + 1
  /\ UNCHANGED <<crawlVars, gateVars, pureVars>>

\* an empty file returns before connecting (load_data.py:157-159)
LoadEmpty ==
  /\ loads < MaxLoads
  /\ prevTable' = table
  /\ lastFile' = <<>>
  /\ repeated' = (loads > 0 /\ lastFile = <<>>)
  /\ loads' = loads + 1
  /\ UNCHANGED <<table, serial, crawlVars, gateVars, pureVars>>

LoadNext ==
  \/ \E file \in Files : Load(file)
  \/ LoadEmpty

\* =========================================================================
\* text: a Python str is a sequence of one-character strings
\* =========================================================================
None == <<"None">>

IsSpace(c) == c = " "
IsDigit(c) == c \in {"0", "1", "2", "3", "4", "5", "6", "7", "8", "9"}

\* str.lstrip() / str.rstrip() / str.strip() on whitespace
RECURSIVE LStrip(_)
LStrip(s) == IF s # <<>> /\ IsSpace(Head(s)) THEN LStrip(Tail(s)) ELSE s

RECURSIVE RStrip(_)
RStrip(s) ==
  IF s # <<>> /\ IsSpace(s[Len(s)]) THEN RStrip(SubSeq(s, 1, Len(s) - 1)) ELSE s

Strip(s) == RStrip(LStrip(s))

\* str.rstrip(c)
RECURSIVE RStripChar(_, _)
RStripChar(s, c) ==
  IF s # <<>> /\ s[Len(s)] = c THEN RStripChar(SubSeq(s, 1, Len(s) - 1), c) ELSE s

\* str.startswith(prefix)
StartsWith(s, prefix) ==
  Len(prefix) <= Len(s) /\ SubSeq(s, 1, Len(prefix)) = prefix

\* =========================================================================
\* clean.py: normalizing one DetailRecord
\* =========================================================================

\* the labels a detail page's field map carries in this model
Labels == {"Program", "Institution", "Decision", "Status", "Notification"}

LabelText ==
  [l \in Labels |->
     CASE l = "Program" -> <<"P", "r", "o", "g", "r", "a", "m">>
       [] l = "Institution" -> <<"I", "n", "s", "t", "i", "t", "u", "t", "i", "o", "n">>
       [] l = "Decision" -> <<"D", "e", "c", "i", "s", "i", "o", "n">>
       [] l = "Status" -> <<"S", "t", "a", "t", "u", "s">>
       [] l = "Notification" -> <<"N", "o", "t", "i", "f", "i", "c", "a", "t", "i", "o", "n">>]

\* FIELD_MAP, in insertion order (clean.py:24-39)
FIELD_MAP ==
  << [field |-> "program", labels |-> <<"Program">>],
     [field |-> "university", labels |-> <<"Institution">>],
     [field |-> "comments", labels |-> <<"Notes">>],
     [field |-> "date_added", labels |-> <<"Date Added">>],
     [field |-> "applicant_status", labels |-> <<"Decision", "Status">>],
     [field |-> "acceptance_date", labels |-> <<"Notification">>],
     [field |-> "rejection_date", labels |-> <<"Notification">>],
     [field |-> "term", labels |-> <<"Term">>],
     [field |-> "US/International", labels |-> <<"Degree's Country of Origin">>],
     [field |-> "GRE Score", labels |-> <<"GRE Score">>],
     [field |-> "GRE V Score", labels |-> <<"GRE V Score">>],
     [field |-> "Degree", labels |-> <<"Degree Type">>],
     [field |-> "GPA", labels |-> <<"Undergrad GPA">>],
     [field |-> "GRE AW", labels |-> <<"GRE AW">>] >>

Fields == {FIELD_MAP[i].field : i \in DOMAIN FIELD_MAP}

\* a raw value is None or markup: a sequence of text nodes and <span> nodes
TextNode(s) == [tag |-> "text", s |-> s]
SpanNode(s) == [tag |-> "span", s |-> s]

\* the raw string of a value
RECURSIVE Serialize(_)
Serialize(nodes) ==
  IF nodes = <<>> THEN <<>>
  ELSE (IF Head(nodes).tag = "span"
          THEN <<"<", "s", "p", "a", "n", ">">> \o Head(nodes).s
                 \o <<"<", "/", "s", "p", "a", "n", ">">>
          ELSE Head(nodes).s)
       \o Serialize(Tail(nodes))

\* soup.get_text(strip=True): the stripped strings, joined
RECURSIVE GetText(_)
GetText(nodes) ==
  IF nodes = <<>> THEN <<>> ELSE Strip(Head(nodes).s) \o GetText(Tail(nodes))

\* _extract_label_text (clean.py:64-70)
ExtractLabelText(nodes, label) ==
  LET hits == {i \in DOMAIN nodes :
                 nodes[i].tag = "span" /\ Strip(nodes[i].s) = LabelText[label]}
  IN IF hits # {} /\ (CHOOSE i \in hits : \A j \in hits : i <= j) < Len(nodes)
       THEN Strip(nodes[(CHOOSE i \in hits : \A j \in hits : i <= j) + 1].s)
       ELSE IF GetText(nodes) # <<>> THEN GetText(nodes) ELSE None

\* pairs.get(label): the raw string under the label, None without the key
PairsGet(pairs, label) ==
  IF label \in DOMAIN pairs THEN Serialize(pairs[label]) ELSE None

\* BeautifulSoup(raw_html, "html.parser"): the nodes of the raw string
Soup(pairs, label) == pairs[label]

\* `raw_html and raw_html.strip()` (clean.py:80)
Usable(raw_html) == raw_html # None /\ Strip(raw_html) # <<>>

\* the inner loop over the labels of one field (clean.py:77-83)
RECURSIVE FirstValue(_, _, _)
FirstValue(pairs, labels, value) ==
  IF labels = <<>> THEN value
  ELSE LET raw_html == PairsGet(pairs, Head(labels)) IN
    IF Usable(raw_html)
      THEN LET v == ExtractLabelText(Soup(pairs, Head(labels)), Head(labels)) IN
        IF v # None /\ v # <<>> THEN v ELSE FirstValue(pairs, Tail(labels), v)
      ELSE FirstValue(pairs, Tail(labels), value)

LabelsOf(f) ==
  FIELD_MAP[CHOOSE i \in DOMAIN FIELD_MAP : FIELD_MAP[i].field = f].labels

\* _build_record (clean.py:73-85)
BuildRecord(pairs) == [f \in Fields |-> FirstValue(pairs, LabelsOf(f), None)]

\* `record.get(key) or ""`
OrEmpty(v) == IF v = None THEN <<>> ELSE v

\* _combine_program_and_university (clean.py:88-93)
CombineProgramAndUniversity(record) ==
  RStripChar(Strip(OrEmpty(record["program"]) \o <<",", " ">>
                     \o OrEmpty(record["university"])), ",")

\* the pattern \d{2}/\d{2}/\d{4}, "d" standing for \d
DatePattern == <<"d", "d", "/", "d", "d", "/", "d", "d", "d", "d">>

MatchesAt(s, i, pattern) ==
  /\ i + Len(pattern) - 1 <= Len(s)
  /\ \A k \in DOMAIN pattern :
       IF pattern[k] = "d" THEN IsDigit(s[i + k - 1]) ELSE s[i + k - 1] = pattern[k]

\* re.search: the match at the leftmost position, None without one
RECURSIVE SearchFrom(_, _, _)
SearchFrom(s, i, pattern) ==
  IF i > Len(s) THEN None
  ELSE IF MatchesAt(s, i, pattern) THEN SubSeq(s, i, i + Len(pattern) - 1)
  ELSE SearchFrom(s, i + 1, pattern)

\* re.search returned the match at the rightmost position
ReSearch_rightmost(s, pattern) ==
  LET hits == {i \in DOMAIN s : MatchesAt(s, i, pattern)}
      last == CHOOSE i \in hits : \A j \in hits : j <= i
  IN IF hits = {} THEN None ELSE SubSeq(s, last, last + Len(pattern) - 1)

\* re.search(pattern, s), match.group(0) or None (clean.py:60-61)
ReSearch(s, pattern) == SearchFrom(s, 1, pattern)

\* _parse_decision_date returned the text itself when nothing matched
ParseDecisionDate_textFallback(notification) ==
  IF notification = None \/ notification = <<>> THEN None
  ELSE IF ReSearch(notification, DatePattern) = None THEN notification
  ELSE ReSearch(notification, DatePattern)

\* _parse_decision_date (clean.py:42-61)
ParseDecisionDate(notification) ==
  IF notification = None \/ notification = <<>> THEN None
  ELSE ReSearch(notification, DatePattern)

Accepted == <<"A", "c", "c", "e", "p", "t", "e", "d">>
Rejected == <<"R", "e", "j", "e", "c", "t", "e", "d">>

\* the else branch of _apply_decision_logic left the dates as _build_record set them
ApplyDecisionLogic_keepsOther(record, pairs) ==
  LET decision == record["applicant_status"]
      notification == PairsGet(pairs, "Notification")
  IN IF decision = Accepted
       THEN [record EXCEPT !["acceptance_date"] = ParseDecisionDate(notification),
                           !["rejection_date"] = None]
     ELSE IF decision = Rejected
       THEN [record EXCEPT !["rejection_date"] = ParseDecisionDate(notification),
                           !["acceptance_date"] = None]
     ELSE record

\* _apply_decision_logic (clean.py:96-109)
ApplyDecisionLogic(record, pairs) ==
  LET decision == record["applicant_status"]
      notification == PairsGet(pairs, "Notification")
  IN IF decision = Accepted
       THEN [record EXCEPT !["acceptance_date"] = ParseDecisionDate(notification),
                           !["rejection_date"] = None]
     ELSE IF decision = Rejected
       THEN [record EXCEPT !["rejection_date"] = ParseDecisionDate(notification),
                           !["acceptance_date"] = None]
     ELSE [record EXCEPT !["rejection_date"] = None, !["acceptance_date"] = None]

\* record["URL"] = entry.get("url") (clean.py:138)
WithUrl(record, entry) ==
  [k \in DOMAIN record \cup {"URL"} |-> IF k = "URL" THEN entry.url ELSE record[k]]

\* a label the detail page does not carry
Absent == <<[tag |-> "absent", s |-> <<>>]>>

\* the raw values the detail pages of this model carry
ProgramRaws ==
  { Absent,
    <<TextNode(<<>>)>>,
    <<SpanNode(LabelText["Program"]), TextNode(<<"C", "S">>)>>,
    <<SpanNode(LabelText["Program"]), TextNode(<<" ", " ">>)>>,
    <<TextNode(<<" ", "C", "S", " ">>)>> }

InstitutionRaws ==
  { Absent,
    <<SpanNode(LabelText["Institution"]), TextNode(<<"M", "I", "T">>)>>,
    <<SpanNode(LabelText["Institution"]), TextNode(<<"J", "H", "U", ",">>)>> }

DecisionRaws ==
  { Absent,
    <<TextNode(Accepted)>>,
    <<TextNode(Rejected)>>,
    <<TextNode(<<"W", "a", "i", "t", "l", "i", "s", "t", "e", "d">>)>>,
    <<SpanNode(LabelText["Decision"]), TextNode(<<" ">>)>> }

StatusRaws ==
  { Absent, <<SpanNode(LabelText["Status"]), TextNode(<<" ", "A", "c", "c", "e", "p", "t", "e", "d", " ">>)>> }

NotificationRaws ==
  { Absent,
    <<TextNode(<<>>)>>,
    <<SpanNode(LabelText["Notification"]), TextNode(<<"1", "5", "/", "0", "4", "/", "2", "0", "2", "5">>)>>,
    <<SpanNode(LabelText["Notification"]), TextNode(<<"o", "n", " ", "1", "/", "2", "/", "2", "0", "2", "5", " ", "v", "i", "a", " ", "E", "-", "m", "a", "i", "l">>)>>,
    <<TextNode(<<"1", "/", "2", "/", "2", "0", "2", "5", " ", "0", "1", "/", "0", "2", "/", "2", "0", "2", "4", " ", "0", "3", "/", "0", "4", "/", "2", "0", "2", "5">>)>>,
    <<SpanNode(<<"0", "1", "/", "0", "1", "/", "2", "0", "2", "4">>), TextNode(<<"1", "1", "5", "/", "0", "4", "/", "2", "0", "2", "5", "5">>)>> }

\* a DetailRecord as scrape_page returns it (scrape.py:146)
PairsOf(p, u, d, st, n) ==
  LET all == [l \in Labels |->
                CASE l = "Program" -> p
                  [] l = "Institution" -> u
                  [] l = "Decision" -> d
                  [] l = "Status" -> st
                  [] l = "Notification" -> n]
  IN [l \in {k \in Labels : all[k] # Absent} |-> all[l]]

DetailRecords ==
  { [id |-> 1, url |-> "u1", data |-> PairsOf(c[1], c[2], c[3], c[4], c[5])] :
    c \in ProgramRaws \X InstitutionRaws \X DecisionRaws \X StatusRaws
            \X NotificationRaws }

NormIdle == nEntry = <<>> /\ nRecord = <<>> /\ npc = "idle"

\* record = _build_record(pairs) (clean.py:135-136)
NBuild ==
  /\ npc = "build"
  /\ nRecord' = BuildRecord(nEntry.data)
  /\ npc' = "combine"
  /\ UNCHANGED <<crawlVars, gateVars, loadVars, extVars, cleanVars, pageVars, badgeVars, nEntry>>

\* record["program"] = _combine_program_and_university(record) (clean.py:137)
NCombine ==
  /\ npc = "combine"
  /\ nRecord' = [nRecord EXCEPT !["program"] = CombineProgramAndUniversity(nRecord)]
  /\ npc' = "url"
  /\ UNCHANGED <<crawlVars, gateVars, loadVars, extVars, cleanVars, pageVars, badgeVars, nEntry>>

\* record["URL"] = entry.get("url") (clean.py:138)
NSetUrl ==
  /\ npc = "url"
  /\ nRecord' = WithUrl(nRecord, nEntry)
  /\ npc' = "decision"
  /\ UNCHANGED <<crawlVars, gateVars, loadVars, extVars, cleanVars, pageVars, badgeVars, nEntry>>

\* _apply_decision_logic(record, pairs) (clean.py:139)
NApplyDecision ==
  /\ npc = "decision"
  /\ nRecord' = ApplyDecisionLogic(nRecord, nEntry.data)
  /\ npc' = "done"
  /\ UNCHANGED <<crawlVars, gateVars, loadVars, extVars, cleanVars, pageVars, badgeVars, nEntry>>

NormNext == NBuild \/ NCombine \/ NSetUrl \/ NApplyDecision

\* =========================================================================
\* clean.py: clean_data over a batch of DetailRecords
\* =========================================================================

\* one iteration of the loop of clean_data for one entry (clean.py:135-139)
Normalize(entry) ==
  LET record == BuildRecord(entry.data)
      combined == [record EXCEPT !["program"] = CombineProgramAndUniversity(record)]
  IN ApplyDecisionLogic(WithUrl(combined, entry), entry.data)

\* the entry after the iteration: it is only read (entry["data"],
\* entry.get("url"), pairs.get)
EntryAfter(entry) == entry

\* the entries a batch of this model is made of
CleanEntries ==
  { [id |-> 1, url |-> "u1",
     data |-> PairsOf(<<SpanNode(LabelText["Program"]), TextNode(<<"C", "S">>)>>,
                      <<SpanNode(LabelText["Institution"]), TextNode(<<"M", "I", "T">>)>>,
                      <<TextNode(Accepted)>>, Absent,
                      <<SpanNode(LabelText["Notification"]),
                        TextNode(<<"1", "5", "/", "0", "4", "/", "2", "0", "2", "5">>)>>)],
    [id |-> 2, url |-> "u2",
     data |-> PairsOf(Absent,
                      <<SpanNode(LabelText["Institution"]), TextNode(<<"M", "I", "T">>)>>,
                      <<TextNode(Rejected)>>, Absent,
                      <<TextNode(<<"1", "/", "2", "/", "2", "0", "2", "5", " ", "0", "1", "/", "0", "2", "/", "2", "0", "2", "4", " ", "0", "3", "/", "0", "4", "/", "2", "0", "2", "5">>)>>)],
    [id |-> 3, url |-> "u3",
     data |-> PairsOf(<<TextNode(<<" ", "C", "S", " ">>)>>, Absent,
                      <<TextNode(<<"W", "a", "i", "t", "l", "i", "s", "t", "e", "d">>)>>, Absent,
                      <<SpanNode(LabelText["Notification"]),
                        TextNode(<<"1", "5", "/", "0", "4", "/", "2", "0", "2", "5">>)>>)] }

\* the dict objects alive in the process: heap[o] is the content of object o
\* `record = {}` returned the dict of the previous record
NewRecord_shared(h) == 1

\* `record = {}`: a dict no one else refers to (clean.py:75)
NewRecord(h) == Len(h) + 1

\* writing the content of object o
Store(h, o, content) == IF o > Len(h) THEN Append(h, content) ELSE [h EXCEPT ![o] = content]

CleanIdle ==
  /\ raw_entries = <<>> /\ clean_target = 0 /\ heap = <<>> /\ cleaned = <<>>
  /\ cIdx = 0 /\ cResult = <<>> /\ cpc = "idle"

\* one iteration of `for entry in raw_entries` (clean.py:134-140)
CleanEntry ==
  /\ cpc = "loop"
  /\ cIdx < Len(raw_entries)
  /\ LET entry == raw_entries[cIdx + 1]
         record == NewRecord(heap)
     IN /\ heap' = Store(heap, record, Normalize(entry))
        /\ cleaned' = Append(cleaned, record)
        /\ raw_entries' = [raw_entries EXCEPT ![cIdx + 1] = EntryAfter(entry)]
  /\ cIdx' = cIdx + 1
  /\ UNCHANGED <<crawlVars, gateVars, loadVars, extVars, normVars, pageVars, badgeVars,
                 clean_target, cResult, cpc>>

\* return cleaned[:target_count] (clean.py:142)
\* the slice kept the tail instead of the head
Trim_tail(records, target) ==
  SubSeq(records, Len(records) - Len(Take(records, target)) + 1, Len(records))

\* cleaned[:target_count] for target_count >= 0 (clean.py:142)
Trim(records, target) == Take(records, target)

CleanReturn ==
  /\ cpc = "loop"
  /\ cIdx = Len(raw_entries)
  /\ cResult' = [i \in DOMAIN Trim(cleaned, clean_target) |->
                   heap[Trim(cleaned, clean_target)[i]]]
  /\ cpc' = "done"
  /\ UNCHANGED <<crawlVars, gateVars, loadVars, extVars, normVars, pageVars, badgeVars,
                 raw_entries, clean_target, heap, cleaned, cIdx>>

CleanNext == CleanEntry \/ CleanReturn

\* =========================================================================
\* scrape.py: scrape_survey_page over the rows of one listing page
\* =========================================================================

\* s.split(sep)[0]: the text before the first occurrence of sep
RECURSIVE Before(_, _)
Before(s, sep) ==
  IF s = <<>> \/ StartsWith(s, sep) THEN <<>>
  ELSE <<Head(s)>> \o Before(Tail(s), sep)

DigitValue(c) ==
  CASE c = "0" -> 0 [] c = "1" -> 1 [] c = "2" -> 2 [] c = "3" -> 3 [] c = "4" -> 4
    [] c = "5" -> 5 [] c = "6" -> 6 [] c = "7" -> 7 [] c = "8" -> 8 [] c = "9" -> 9

\* the digits of an integer literal: digits, single underscores between them
IsDigits(body) ==
  /\ body # <<>>
  /\ \A k \in DOMAIN body : IsDigit(body[k]) \/ body[k] = "_"
  /\ IsDigit(body[1]) /\ IsDigit(body[Len(body)])
  /\ \A k \in 1..(Len(body) - 1) : ~(body[k] = "_" /\ body[k + 1] = "_")

RECURSIVE DigitsValue(_, _)
DigitsValue(body, acc) ==
  IF body = <<>> THEN acc
  ELSE IF Head(body) = "_" THEN DigitsValue(Tail(body), acc)
  ELSE DigitsValue(Tail(body), 10 * acc + DigitValue(Head(body)))

\* int(text): <<n>> for the integer n, <<>> when int raises ValueError
IntOf(text) ==
  LET t == Strip(text)
      signed == t # <<>> /\ Head(t) \in {"+", "-"}
      body == IF signed THEN Tail(t) ELSE t
  IN IF ~IsDigits(body) THEN <<>>
     ELSE IF signed /\ Head(t) = "-" THEN << -DigitsValue(body, 0) >>
     ELSE << DigitsValue(body, 0) >>

ResultPrefix == <<"/", "r", "e", "s", "u", "l", "t", "/">>

\* link_tag["href"].split("/result/")[1].split("#")[0], for an href that
\* starts with "/result/" as the selector a[href^='/result/'] requires
IdSegment(href) ==
  Before(Before(SubSeq(href, Len(ResultPrefix) + 1, Len(href)), ResultPrefix), <<"#">>)

\* the except clause caught nothing that int raises
Caught_attributeOnly(exc) == exc \in {"AttributeError", "IndexError"}

\* except (ValueError, AttributeError, IndexError) (scrape.py:46)
Caught(exc) == exc \in {"ValueError", "AttributeError", "IndexError"}

\* _parse_entry_id_and_date (scrape.py:40-47): the exception that leaves the
\* function ("none" when it returns) and the result_id (<<>> for None)
ParseEntryId(href) ==
  LET n == IntOf(IdSegment(href)) IN
  IF n # <<>> THEN [exc |-> "none", result_id |-> n]
  ELSE IF Caught("ValueError") THEN [exc |-> "none", result_id |-> <<>>]
  ELSE [exc |-> "ValueError", result_id |-> <<>>]

\* `if result_id:`
TruthyId(result_id) == result_id # <<>> /\ result_id[1] # 0

\* a table row: whether row.select_one("a[href^='/result/']") finds a link,
\* and the link's href
NoLink == [has |-> FALSE, href |-> <<>>]
LinkRow(segment) == [has |-> TRUE, href |-> ResultPrefix \o segment]

RowKinds ==
  { NoLink,
    LinkRow(<<"7">>),
    LinkRow(<<"8">>),
    LinkRow(<<"7", "#", "a">>),
    LinkRow(<<"-", "1">>),
    LinkRow(<<"0">>),
    LinkRow(<<"x", "9">>),
    LinkRow(<<>>),
    LinkRow(<<"8", "/", "e", "d", "i", "t">>) }

PageIdle == rows = <<>> /\ rowIdx = 0 /\ scanned = <<>> /\ ppc = "idle"

\* the cursor moved one row whatever the row held
NextRow_one(i, hasLink) == i + 1

\* the row cursor after a row: `i += 1; continue` without a record link
\* (scrape.py:85-87), `i += 2` with one (scrape.py:99)
NextRow(i, hasLink) == IF hasLink THEN i + 2 ELSE i + 1

\* a row without a record link: i += 1 (scrape.py:83-87)
ScanSkip ==
  /\ ppc = "scan"
  /\ rowIdx < Len(rows)
  /\ ~rows[rowIdx + 1].has
  /\ rowIdx' = NextRow(rowIdx, FALSE)
  /\ UNCHANGED <<crawlVars, gateVars, loadVars, extVars, normVars, cleanVars, badgeVars,
                 rows, scanned, ppc>>

\* a row with a record link (scrape.py:89-100)
ScanLink ==
  /\ ppc = "scan"
  /\ rowIdx < Len(rows)
  /\ rows[rowIdx + 1].has
  /\ LET parsed == ParseEntryId(rows[rowIdx + 1].href) IN
       IF parsed.exc # "none"
         THEN ppc' = "raised" /\ UNCHANGED <<rowIdx, scanned>>
         ELSE /\ scanned' = IF TruthyId(parsed.result_id)
                              THEN Append(scanned, [id |-> parsed.result_id[1]])
                              ELSE scanned
              /\ rowIdx' = NextRow(rowIdx, TRUE)
              /\ ppc' = ppc
  /\ UNCHANGED <<crawlVars, gateVars, loadVars, extVars, normVars, cleanVars, badgeVars, rows>>

\* return entries (scrape.py:101)
ScanReturn ==
  /\ ppc = "scan"
  /\ rowIdx >= Len(rows)
  /\ ppc' = "done"
  /\ UNCHANGED <<crawlVars, gateVars, loadVars, extVars, normVars, cleanVars, badgeVars,
                 rows, rowIdx, scanned>>

ScanNext == ScanSkip \/ ScanLink \/ ScanReturn

\* =========================================================================
\* scrape.py: _parse_badges_row over the badges of one row
\* =========================================================================

\* the letters of the term words, lowered as re.IGNORECASE compares them
LowerChar(c) ==
  CASE c = "F" -> "f" [] c = "A" -> "a" [] c = "L" -> "l" [] c = "S" -> "s"
    [] c = "P" -> "p" [] c = "R" -> "r" [] c = "I" -> "i" [] c = "N" -> "n"
    [] c = "G" -> "g" [] c = "U" -> "u" [] c = "M" -> "m" [] c = "E" -> "e"
    [] c = "W" -> "w" [] c = "T" -> "t" [] OTHER -> c

Lower(s) == [k \in DOMAIN s |-> LowerChar(s[k])]

\* the alternatives of the term pattern (scrape.py:75-77)
TermWords ==
  { <<"f", "a", "l", "l">>, <<"s", "p", "r", "i", "n", "g">>, <<"s", "u", "m", "m", "e", "r">>, <<"w", "i", "n", "t", "e", "r">>, <<"f">>, <<"s">>, <<"s", "u">>, <<"w">> }

\* term_pattern.match(text): ^(word)\s*\d{2,4}$, ignoring case
TermMatch(text) ==
  \E w \in TermWords :
    /\ StartsWith(Lower(text), w)
    /\ LET rest == LStrip(SubSeq(text, Len(w) + 1, Len(text))) IN
         /\ Len(rest) \in 2..4
         /\ \A k \in DOMAIN rest : IsDigit(rest[k])

\* text.replace(old, "")
RECURSIVE RemoveAll(_, _)
RemoveAll(s, old) ==
  IF s = <<>> THEN <<>>
  ELSE IF StartsWith(s, old) THEN RemoveAll(SubSeq(s, Len(old) + 1, Len(s)), old)
  ELSE <<Head(s)>> \o RemoveAll(Tail(s), old)

GRE == <<"G", "R", "E">>
GRE_ == <<"G", "R", "E", " ">>
GRE_V == <<"G", "R", "E", " ", "V">>
GRE_AW == <<"G", "R", "E", " ", "A", "W">>

\* the GRE total test without its exclusion of the longer prefixes
IsGreTotal_anyGre(text) == StartsWith(text, GRE_)

\* text.startswith("GRE ") and not text.startswith(("GRE V", "GRE AW"))
IsGreTotal(text) ==
  StartsWith(text, GRE_) /\ ~(StartsWith(text, GRE_V) \/ StartsWith(text, GRE_AW))

\* record_data[key] = value
Put(d, key, value) == [k \in DOMAIN d \cup {key} |-> IF k = key THEN value ELSE d[k]]

\* the if/elif chain for one badge text (scrape.py:28-36)
ParseBadge(d, text) ==
  IF TermMatch(text) THEN Put(d, "term", text)
  ELSE IF IsGreTotal(text) THEN Put(d, "GRE Score", Strip(RemoveAll(text, GRE)))
  ELSE IF StartsWith(text, GRE_V) THEN Put(d, "GRE V Score", Strip(RemoveAll(text, GRE_V)))
  ELSE IF StartsWith(text, GRE_AW) THEN Put(d, "GRE AW", Strip(RemoveAll(text, GRE_AW)))
  ELSE d

\* div.get_text(strip=True) of the badges of this model
BadgeTexts ==
  { <<"F", "a", "l", "l", " ", "2", "0", "2", "5">>,
    <<"f", "2", "5">>,
    <<"S", "u", " ", "2", "4">>,
    <<"F", "a", "l", "l", " ", "2", "0", "2", "5", "5">>,
    <<"G", "R", "E", " ", "3", "2", "0">>,
    <<"G", "R", "E", " ", "V", " ", "1", "6", "0">>,
    <<"G", "R", "E", " ", "A", "W", " ", "4", ".", "5">>,
    <<"G", "R", "E", " ", "V", "e", "r", "b", "a", "l", " ", "1", "6", "0">>,
    <<"G", "R", "E">>,
    <<"G", "R", "E", "A", "T", " ", "1">>,
    <<"G", "P", "A", " ", "3", ".", "9", "0">>,
    <<"I", "n", "t", "e", "r", "n", "a", "t", "i", "o", "n", "a", "l">> }

BadgeIdle == badges = <<>> /\ bIdx = 0 /\ record_data = <<>>

\* one iteration of the loop over the badges (scrape.py:26-36)
BadgeStep ==
  /\ bIdx < Len(badges)
  /\ record_data' = ParseBadge(record_data, badges[bIdx + 1])
  /\ bIdx' = bIdx + 1
  /\ UNCHANGED <<crawlVars, gateVars, loadVars, extVars, normVars, cleanVars, pageVars, badges>>

BadgeNext == BadgeStep

\* =========================================================================
\* scrape.py: scrape_page for one stub
\* =========================================================================

\* a key the stub does not carry
Missing == <<"missing">>

\* a StubRecord as scrape_survey_page builds it (scrape.py:96-97), also one
\* without date_added as a caller can pass it
StubOf(d, t, g, v, a) ==
  LET all == [k \in {"date_added", "term", "GRE Score", "GRE V Score", "GRE AW"} |->
                CASE k = "date_added" -> d [] k = "term" -> t [] k = "GRE Score" -> g
                  [] k = "GRE V Score" -> v [] k = "GRE AW" -> a]
      present == {k \in DOMAIN all : all[k] # Missing}
  IN [k \in present \cup {"id"} |-> IF k = "id" THEN <<"7">> ELSE all[k]]

Stubs ==
  { StubOf(c[1], c[2], c[3], c[4], c[5]) :
      c \in {Missing, None, <<"d">>} \X {Missing, <<"t">>} \X {Missing, <<"g">>}
              \X {Missing, <<"v">>} \X {Missing, <<"w">>} }

\* a `dl > div` block of the detail page: whether it has a dt and a dd, and
\* their stripped texts
Blocks ==
  [dt : {TRUE}, dd : {TRUE},
   key : {"Program", "Term", "Date Added", "GRE AW"}, value : {<<"x">>, <<"y">>}]
    \cup {[dt |-> TRUE, dd |-> FALSE, key |-> "Program", value |-> <<>>],
          [dt |-> FALSE, dd |-> TRUE, key |-> "", value |-> <<"x">>]}

\* what the request of the detail page gives: a response with a status, or
\* an exception (urllib3 HTTPError, or another one while parsing)
DetailPages ==
  [outcome : {"200"}, blocks : SeqsUpTo(Blocks, MaxBlocks)]
    \cup [outcome : {"404", "HTTPError", "Exception"}, blocks : {<<>>}]

\* page_entry.get(key)
StubGet(stub, key) == IF key \in DOMAIN stub THEN stub[key] ELSE None

\* the five keys taken from the stub, with the stub key each is read from
\* (scrape.py:138-142)
OverlayKeys ==
  << [key |-> "Date Added", from |-> "date_added"],
     [key |-> "Term", from |-> "term"],
     [key |-> "GRE Score", from |-> "GRE Score"],
     [key |-> "GRE V Score", from |-> "GRE V Score"],
     [key |-> "GRE AW", from |-> "GRE AW"] >>

\* the overlay kept the value of the detail page where it had one
Overlay_pageFirst(p, stub) ==
  [k \in DOMAIN p \cup {OverlayKeys[i].key : i \in DOMAIN OverlayKeys} |->
     IF k \in DOMAIN p THEN p[k]
     ELSE StubGet(stub, OverlayKeys[CHOOSE i \in DOMAIN OverlayKeys :
                                      OverlayKeys[i].key = k].from)]

\* pairs["Date Added"] = page_entry["date_added"] ... pairs["GRE AW"] =
\* page_entry.get("GRE AW") (scrape.py:138-142)
Overlay(p, stub) ==
  [k \in DOMAIN p \cup {OverlayKeys[i].key : i \in DOMAIN OverlayKeys} |->
     IF \E i \in DOMAIN OverlayKeys : OverlayKeys[i].key = k
       THEN StubGet(stub, OverlayKeys[CHOOSE i \in DOMAIN OverlayKeys :
                                        OverlayKeys[i].key = k].from)
       ELSE p[k]]

\* f"https://www.thegradcafe.com/result/{page_id}" (scrape.py:122)
DetailUrl(page_id) == ResultPrefix \o page_id

\* http.request and the status test (scrape.py:124-127); every failure gives
\* None (scrape.py:143-146)
DRequest ==
  /\ dpc = "request"
  /\ IF detail_page.outcome = "200"
       THEN dpc' = "parse" /\ UNCHANGED dResult
       ELSE dpc' = "done" /\ dResult' = <<>>
  /\ UNCHANGED <<crawlVars, gateVars, loadVars, normVars, cleanVars, pageVars, badgeVars,
                 runVars, page_entry, detail_page, dPairs, dIdx>>

\* one `dl > div` block (scrape.py:130-136)
DBlock ==
  /\ dpc = "parse"
  /\ dIdx < Len(detail_page.blocks)
  /\ LET block == detail_page.blocks[dIdx + 1] IN
       dPairs' = IF block.dt /\ block.dd THEN Put(dPairs, block.key, block.value)
                 ELSE dPairs
  /\ dIdx' = dIdx + 1
  /\ UNCHANGED <<crawlVars, gateVars, loadVars, normVars, cleanVars, pageVars, badgeVars,
                 runVars, page_entry, detail_page, dResult, dpc>>

\* the overlay and the return; page_entry["date_added"] raises KeyError on a
\* stub without the key, which `except Exception` turns into None
\* (scrape.py:138-146)
DOverlay ==
  /\ dpc = "parse"
  /\ dIdx = Len(detail_page.blocks)
  /\ IF "date_added" \in DOMAIN page_entry
       THEN /\ dPairs' = Overlay(dPairs, page_entry)
            /\ dResult' = << [id |-> page_entry["id"],
                              url |-> DetailUrl(page_entry["id"]),
                              data |-> dPairs'] >>
       ELSE /\ dResult' = <<>>
            /\ UNCHANGED dPairs
  /\ dpc' = "done"
  /\ UNCHANGED <<crawlVars, gateVars, loadVars, normVars, cleanVars, pageVars, badgeVars,
                 runVars, page_entry, detail_page, dIdx>>

DetailNext == DRequest \/ DBlock \/ DOverlay

DetailIdle ==
  /\ page_entry = <<>> /\ detail_page = <<>> /\ dPairs = <<>> /\ dIdx = 0
  /\ dResult = <<>> /\ dpc = "idle"

\* =========================================================================
\* pages.py: successive POST /scrape and POST /refresh_queries runs
\* =========================================================================

\* the greatest element of a non-empty set of integers
MaxOf(S) == CHOOSE m \in S : \A n \in S : n <= m

\* the query took the greatest serial key, which counts the rows
GetMaxId_serial(ids) == Cardinality(ids)

\* get_max_id (query_data.py:169-185): MAX over the result ids cast from the
\* urls, NULL for an empty table, then `result if result else 0`
GetMaxId(ids) ==
  IF ids = {} THEN 0 ELSE IF MaxOf(ids) # 0 THEN MaxOf(ids) ELSE 0

\* a source of listing pages holding the given stub ids
SourceOf(pages) ==
  [p \in 1..MaxPage |->
     IF p <= Len(pages) THEN pages[p] ELSE [status |-> "ok", rows |-> <<>>]]

OkPage(ids) == [status |-> "ok", rows |-> ids]

\* what the site shows at the start of a crawl: newest results first, older
\* ones moving down as results are added
RunListings ==
  { SourceOf(<<OkPage(<<2, 1>>)>>),
    SourceOf(<<OkPage(<<3, 2>>), OkPage(<<1>>)>>),
    SourceOf(<<OkPage(<<1, -1>>)>>),
    SourceOf(<<[status |-> "raise", rows |-> <<>>], OkPage(<<2>>)>>) }

\* the stubs a finished crawl collected before the truncation: those of the
\* batches that were joined, the pages before page_num
RECURSIVE CollectedIds(_)
CollectedIds(p) ==
  IF p < 1 THEN {}
  ELSE LET kept == FilterByMaxId(ListingOf(p).rows, max_id)
       IN {kept[i] : i \in DOMAIN kept} \cup CollectedIds(p - 1)

\* POST /scrape up to the call of scrape_new_entries: the gate is open, the
\* flag is set and the watermark is read from the table (pages.py:51-57)
RunScrape ==
  /\ ~Busy("scrape", running)
  /\ runs < MaxRuns
  /\ running' = TRUE
  /\ max_id' = <<GetMaxId(db)>>
  /\ \E l \in RunListings : listing' = l
  /\ pc' = "while"
  /\ page_num' = 1
  /\ all_entries' = <<>>
  /\ fut' = [p \in PageSpace |-> "none"]
  /\ mapIdx' = 0
  /\ excCaught' = FALSE
  /\ finishOrder' = <<>>
  /\ dfut' = <<>>
  /\ returned' = <<>>
  /\ collected' = 0
  /\ runs' = runs + 1
  /\ UNCHANGED <<loadVars, normVars, cleanVars, pageVars, badgeVars, detailVars,
                 target_count, batch_size, rpc, rkind, resp, sawBusy, work,
                 db, cleaned_file, found>>

\* POST /scrape after scrape_new_entries returned: the files are written and
\* cleaned, or a step fails and the cleaned file stays as it was; the flag
\* is cleared (pages.py:59-77)
RunSave ==
  /\ running
  /\ pc = "done"
  /\ \E ok \in BOOLEAN :
       /\ cleaned_file' = IF ok THEN returned ELSE cleaned_file
       /\ running' = FlagAfterScrape(running, IF ok THEN 200 ELSE 500)
  /\ found' = found \cup CollectedIds(page_num - 1)
  /\ pc' = "idle"
  /\ UNCHANGED <<loadVars, normVars, cleanVars, pageVars, badgeVars, detailVars,
                 max_id, target_count, batch_size, listing, page_num, all_entries,
                 fut, mapIdx, excCaught, finishOrder, dfut, returned, collected,
                 rpc, rkind, resp, sawBusy, work, db, runs>>

\* POST /refresh_queries: the rows of the cleaned file are inserted, ON
\* CONFLICT (url) DO NOTHING (pages.py:80-98; load_data.py)
RunRefresh ==
  /\ ~Busy("refresh", running)
  /\ db' = db \cup {cleaned_file[i] : i \in DOMAIN cleaned_file}
  /\ UNCHANGED <<crawlVars, gateVars, loadVars, normVars, cleanVars, pageVars,
                 badgeVars, detailVars, cleaned_file, found, runs>>

RunNext == RunScrape \/ CrawlNext \/ RunSave \/ RunRefresh

RunIdle == db = {} /\ cleaned_file = <<>> /\ found = {} /\ runs = 0

ExtIdle == DetailIdle /\ RunIdle

PureIdle == NormIdle /\ CleanIdle /\ PageIdle /\ BadgeIdle /\ ExtIdle

\* =========================================================================
\* specifications
\* =========================================================================
CrawlInit ==
  /\ max_id \in Watermarks
  /\ target_count \in 0..MaxTarget
  /\ batch_size \in 1..MaxBatch
  /\ listing \in Listings
  /\ CrawlStart
  /\ GateIdle
  /\ LoadIdle
  /\ PureIdle

SpecCrawl == CrawlInit /\ [][CrawlNext]_vars

\* the crawl when every submitted fetch returns and the main thread and the
\* pool threads keep running; an unavailable page is left out as it returns
\* what a page without rows returns, and the watermark 0 as it filters
\* nothing, like None
FairInit ==
  /\ max_id \in Watermarks \ {<<0>>}
  /\ target_count \in 0..MaxTarget
  /\ batch_size \in 1..MaxBatch
  /\ listing \in {l \in Listings : \A p \in DOMAIN l : l[p].status # "unavailable"}
  /\ CrawlStart
  /\ GateIdle
  /\ LoadIdle
  /\ PureIdle

SpecCrawlFair == FairInit /\ [][CrawlNext]_vars /\ WF_vars(CrawlNext)

\* an empty table, no cleaned file and no crawl under way
RunInit ==
  /\ max_id = <<>>
  /\ target_count \in 1..MaxTarget
  /\ batch_size \in 1..MaxBatch
  /\ listing = SourceOf(<<>>)
  /\ pc = "idle"
  /\ page_num = 1
  /\ all_entries = <<>>
  /\ fut = [p \in PageSpace |-> "none"]
  /\ mapIdx = 0
  /\ excCaught = FALSE
  /\ finishOrder = <<>>
  /\ dfut = <<>>
  /\ returned = <<>>
  /\ collected = 0
  /\ GateIdle
  /\ LoadIdle
  /\ PureIdle

SpecRuns == RunInit /\ [][RunNext]_vars

GateInit == CrawlIdle /\ GateIdle /\ LoadIdle /\ PureIdle

SpecGate == GateInit /\ [][GateNext]_vars

LoadInit == CrawlIdle /\ GateIdle /\ LoadIdle /\ PureIdle

SpecLoad == LoadInit /\ [][LoadNext]_vars

\* one DetailRecord, about to be normalized
NormInit ==
  /\ CrawlIdle /\ GateIdle /\ LoadIdle /\ CleanIdle /\ PageIdle /\ BadgeIdle /\ ExtIdle
  /\ nEntry \in DetailRecords
  /\ nRecord = <<>>
  /\ npc = "build"

SpecNormalize == NormInit /\ [][NormNext]_vars

\* a call of clean_data; the process holds a record of an earlier call
CleanInit ==
  /\ CrawlIdle /\ GateIdle /\ LoadIdle /\ NormIdle /\ PageIdle /\ BadgeIdle /\ ExtIdle
  /\ raw_entries \in SeqsUpTo(CleanEntries, MaxEntries)
  /\ clean_target \in 0..MaxTarget
  /\ heap \in {<<Normalize(e)>> : e \in CleanEntries}
  /\ cleaned = <<>>
  /\ cIdx = 0
  /\ cResult = <<>>
  /\ cpc = "loop"

SpecClean == CleanInit /\ [][CleanNext]_vars

\* one fetched listing page, about to be scanned
ScanInit ==
  /\ CrawlIdle /\ GateIdle /\ LoadIdle /\ NormIdle /\ CleanIdle /\ BadgeIdle /\ ExtIdle
  /\ rows \in SeqsUpTo(RowKinds, MaxScanRows)
  /\ rowIdx = 0
  /\ scanned = <<>>
  /\ ppc = "scan"

SpecScanPage == ScanInit /\ [][ScanNext]_vars

\* the badges row of one record row, about to be parsed
BadgeInit ==
  /\ CrawlIdle /\ GateIdle /\ LoadIdle /\ NormIdle /\ CleanIdle /\ PageIdle /\ ExtIdle
  /\ badges \in SeqsUpTo(BadgeTexts, MaxBadges)
  /\ bIdx = 0
  /\ record_data = <<>>

SpecBadges == BadgeInit /\ [][BadgeNext]_vars

\* one stub, about to be detail-fetched
DetailInit ==
  /\ CrawlIdle /\ GateIdle /\ LoadIdle
  /\ NormIdle /\ CleanIdle /\ PageIdle /\ BadgeIdle /\ RunIdle
  /\ page_entry \in Stubs
  /\ detail_page \in DetailPages
  /\ dPairs = <<>>
  /\ dIdx = 0
  /\ dResult = <<>>
  /\ dpc = "request"

SpecDetail == DetailInit /\ [][DetailNext]_vars

\* =========================================================================
\* properties of scrape_new_entries (SpecCrawl)
\* =========================================================================

\* pages of one batch in page-number order
PagesInOrder(start, size) == [i \in 1..size |-> start + i - 1]

\* the filtered stubs of the batch starting at page `start`, as a function of
\* the source alone: page order, then row order; nothing if a scan raises
BatchOf(start) ==
  IF \E p \in PageRange(start, batch_size) : ListingOf(p).status = "raise"
    THEN <<>>
    ELSE FilterByMaxId(Flatten(PagesInOrder(start, batch_size)), max_id)

\* number of stubs in the run of non-empty batches that starts at `start`
RECURSIVE LeadingCount(_)
LeadingCount(start) ==
  IF start > LastPage \/ BatchOf(start) = <<>> THEN 0
  ELSE Len(BatchOf(start)) + LeadingCount(start + batch_size)

\* number of stubs on all listing pages that pass the watermark filter
PassingInSource ==
  SumLen([p \in 1..MaxPage |-> FilterByMaxId(ListingOf(p).rows, max_id)],
         1..MaxPage)

\* the stub list a sequential, page-ordered scan of the source collects
RECURSIVE ExpectedCollected(_, _)
ExpectedCollected(start, acc) ==
  IF Len(acc) >= target_count \/ start > LastPage THEN acc
  ELSE IF BatchOf(start) = <<>> THEN acc
  ELSE ExpectedCollected(start + batch_size, acc \o BatchOf(start))

AllDetailsOk == \A i \in DOMAIN dfut : dfut[i] = "ok"

\* C1: the crawl returns at most target_count records, also when the last
\* scanned batch pushed the collected stub list past target_count.
Thm_C1_AtMostTarget ==
  /\ Len(returned) <= target_count
  /\ Len(dfut) <= target_count

Witness_C1 ==
  /\ pc = "done"
  /\ target_count > 0
  /\ collected > target_count
  /\ Len(returned) = target_count

\* C2 as stated: if at least target_count stubs passing the watermark filter
\* exist across the listing pages, the crawl returns exactly target_count.
Orig_C2_ExactlyTarget ==
  (pc = "done" /\ PassingInSource >= target_count)
    => Len(returned) = target_count

\* C2 amended: if the non-empty batches leading from page 1 hold at least
\* target_count passing stubs and every detail fetch succeeds, the crawl
\* returns exactly target_count records.
Thm_C2_ExactlyTarget ==
  (pc = "done" /\ LeadingCount(1) >= target_count /\ AllDetailsOk)
    => Len(returned) = target_count

Witness_C2 ==
  /\ pc = "done"
  /\ target_count >= 2
  /\ page_num > 1 + batch_size
  /\ LeadingCount(1) >= target_count
  /\ AllDetailsOk
  /\ Len(returned) = target_count

\* C3 as stated: with a non-null watermark every returned record has
\* id > watermark, and no stub with id <= watermark is detail-fetched.
Orig_C3_Watermark ==
  max_id # <<>> =>
    /\ \A i \in DOMAIN returned : returned[i] > max_id[1]
    /\ (dfut # <<>> => \A i \in DOMAIN all_entries : all_entries[i] > max_id[1])

\* C4: if the first batch has no stub after the watermark filter, the crawl
\* returns [] and scrape_page is never submitted or invoked.
Thm_C4_EmptyFirstBatch ==
  BatchOf(1) = <<>> =>
    /\ dfut = <<>>
    /\ returned = <<>>
    /\ (pc \in {"detail", "done"} => all_entries = <<>>)

Witness_C4 ==
  /\ pc = "done"
  /\ target_count > 0
  /\ Truthy(max_id)
  /\ ListingOf(1).rows # <<>>
  /\ BatchOf(1) = <<>>
  /\ PassingInSource > 0
  /\ returned = <<>>

\* C5: a scan is pending or running only while the main thread is inside the
\* with block of its own batch; so batch k is complete before batch k+1 is
\* submitted, and all scans are complete before truncation and detailing.
Thm_C5_Barriers ==
  \A p \in PageSpace :
    fut[p] \in {"pending", "running"} =>
      /\ pc \in {"map", "join"}
      /\ p \in PageRange(page_num, batch_size)

Witness_C5 ==
  /\ pc = "join"
  /\ excCaught
  /\ \E p \in PageRange(page_num, batch_size) : fut[p] = "running"

\* C6: the stub list handed to detailing is the one a sequential page-ordered
\* scan collects, truncated to target_count, whatever order the scans
\* finished in.
Thm_C6_OrderIndependent ==
  pc \in {"detail", "done"} =>
    /\ collected = Len(ExpectedCollected(1, <<>>))
    /\ all_entries = Take(ExpectedCollected(1, <<>>), target_count)

Witness_C6 ==
  /\ pc = "done"
  /\ batch_size = 2
  /\ finishOrder = <<2, 1>>
  /\ ListingOf(1).rows # <<>>
  /\ ListingOf(2).rows # <<>>
  /\ ListingOf(1).rows \o ListingOf(2).rows # ListingOf(2).rows \o ListingOf(1).rows
  /\ collected > target_count
  /\ all_entries = Take(ListingOf(1).rows \o ListingOf(2).rows, target_count)

\* =========================================================================
\* properties of the running flag (SpecGate)
\* =========================================================================

\* C7 as stated: no two requests are at the same time between setting the
\* flag and the finally clause.
Orig_C7_OneCrawl ==
  Cardinality({r \in Requests : rpc[r] \in CrawlSection}) <= 1

\* C8: a request of either route whose busy test reads the flag as true
\* answers 409 and performs none of its work.
Thm_C8_BusyGate ==
  \A r \in Requests :
    (sawBusy[r] /\ rpc[r] # "check") =>
      /\ rpc[r] = "done"
      /\ resp[r] = 409
      /\ work[r] = {}

Witness_C8 ==
  \E r1, r2 \in Requests :
    /\ rkind[r1] = "scrape" /\ rkind[r2] = "refresh"
    /\ sawBusy[r1] /\ sawBusy[r2]
    /\ resp[r1] = 409 /\ resp[r2] = 409
    /\ running

\* C9: the flag is true only while a scrape request that passed the busy
\* test has not yet left its finally clause, and the step that ends such a
\* request leaves the flag false, whatever the outcome.
Thm_C9_FlagCleared ==
  /\ [](running => \E r \in Requests : rpc[r] \in CrawlSection \cup {"finally"})
  /\ [][\A r \in Requests :
          (rpc[r] = "finally" /\ rpc'[r] = "done") => ~running']_vars

Witness_C9 ==
  \E r \in Requests :
    /\ rkind[r] = "scrape"
    /\ rpc[r] = "done"
    /\ resp[r] = 500
    /\ work[r] = {"get_max_id", "scrape_new_entries"}
    /\ ~running

\* =========================================================================
\* properties of insert_data (SpecLoad)
\* =========================================================================

\* the table keeps every earlier row unchanged and in place
KeepsRows(before, after) ==
  /\ Len(before) <= Len(after)
  /\ \A i \in DOMAIN before : after[i] = before[i]

\* C10 as stated: at most one row per non-null url, stored rows are never
\* changed by a load, and loading the same file twice in a row leaves the
\* table as it was after the first load.
Orig_C10_IdempotentUpsert ==
  /\ \A i, j \in DOMAIN table :
       (table[i].url # NULL /\ table[i].url = table[j].url) => i = j
  /\ KeepsRows(prevTable, table)
  /\ (repeated => table = prevTable)

\* =========================================================================
\* properties of the normalization of one record (SpecNormalize)
\* =========================================================================

\* the raw Notification string of the entry, None when the entry has none
RawNotification == PairsGet(nEntry.data, "Notification")

\* s carries DD/MM/YYYY-shaped text starting at position i
DateShapedAt(s, i) ==
  /\ i + 9 <= Len(s)
  /\ \A k \in {0, 1, 3, 4, 6, 7, 8, 9} : IsDigit(s[i + k])
  /\ s[i + 2] = "/"
  /\ s[i + 5] = "/"

DateShapedPositions(s) == IF s = None THEN {} ELSE {i \in DOMAIN s : DateShapedAt(s, i)}

\* the first DD/MM/YYYY-shaped substring of s, None without one
FirstDateShaped(s) ==
  IF DateShapedPositions(s) = {} THEN None
  ELSE LET i == CHOOSE i \in DateShapedPositions(s) :
                  \A j \in DateShapedPositions(s) : i <= j
       IN SubSeq(s, i, i + 9)

\* C11: in every record clean_data produces, acceptance_date and
\* rejection_date are never both non-null.
Thm_C11_DatesExclusive ==
  npc = "done" =>
    ~(nRecord["acceptance_date"] # None /\ nRecord["rejection_date"] # None)

\* an accepted record whose two date fields were both filled from the
\* Notification label before the decision logic ran
Witness_C11 ==
  /\ npc = "done"
  /\ nRecord["applicant_status"] = Accepted
  /\ BuildRecord(nEntry.data)["acceptance_date"] # None
  /\ BuildRecord(nEntry.data)["rejection_date"] # None
  /\ nRecord["acceptance_date"] # None

\* C12 as stated: an Accepted record has a non-null acceptance_date and a null
\* rejection_date, a Rejected record the reverse, any other record neither.
Orig_C12_StatusDates ==
  npc = "done" =>
    /\ nRecord["applicant_status"] = Accepted =>
         nRecord["acceptance_date"] # None /\ nRecord["rejection_date"] = None
    /\ nRecord["applicant_status"] = Rejected =>
         nRecord["rejection_date"] # None /\ nRecord["acceptance_date"] = None
    /\ nRecord["applicant_status"] \notin {Accepted, Rejected} =>
         nRecord["acceptance_date"] = None /\ nRecord["rejection_date"] = None

\* C12 amended: an Accepted record has a null rejection_date, and its
\* acceptance_date is non-null exactly when the raw Notification carries a
\* DD/MM/YYYY-shaped substring; a Rejected record the reverse; any other
\* record has neither date.
Thm_C12_StatusDates ==
  npc = "done" =>
    /\ nRecord["applicant_status"] = Accepted =>
         /\ nRecord["rejection_date"] = None
         /\ nRecord["acceptance_date"] # None <=>
              DateShapedPositions(RawNotification) # {}
    /\ nRecord["applicant_status"] = Rejected =>
         /\ nRecord["acceptance_date"] = None
         /\ nRecord["rejection_date"] # None <=>
              DateShapedPositions(RawNotification) # {}
    /\ nRecord["applicant_status"] \notin {Accepted, Rejected} =>
         nRecord["acceptance_date"] = None /\ nRecord["rejection_date"] = None

\* a rejected record whose Notification has text but nothing date-shaped
Witness_C12 ==
  /\ npc = "done"
  /\ nRecord["applicant_status"] = Rejected
  /\ RawNotification # None
  /\ RawNotification # <<>>
  /\ DateShapedPositions(RawNotification) = {}
  /\ nRecord["rejection_date"] = None

\* C13 as stated: the combined program field never starts or ends with a
\* separator; with an empty program and a university the field is the
\* university alone.
Orig_C13_NoDanglingSeparator ==
  npc = "done" =>
    /\ nRecord["program"] # <<>> =>
         /\ Head(nRecord["program"]) \notin {",", " "}
         /\ nRecord["program"][Len(nRecord["program"])] \notin {",", " "}
    /\ (OrEmpty(BuildRecord(nEntry.data)["program"]) = <<>>
          /\ OrEmpty(BuildRecord(nEntry.data)["university"]) # <<>>) =>
         nRecord["program"] = Strip(BuildRecord(nEntry.data)["university"])

\* C14: an Accepted record's acceptance_date is the first DD/MM/YYYY-shaped
\* substring of the raw Notification (null without one) and its
\* rejection_date is null; a Rejected record the reverse; any other status,
\* null included, gives two nulls.
Thm_C14_DecisionDate ==
  npc = "done" =>
    /\ nRecord["applicant_status"] = Accepted =>
         /\ nRecord["acceptance_date"] = FirstDateShaped(RawNotification)
         /\ nRecord["rejection_date"] = None
    /\ nRecord["applicant_status"] = Rejected =>
         /\ nRecord["rejection_date"] = FirstDateShaped(RawNotification)
         /\ nRecord["acceptance_date"] = None
    /\ nRecord["applicant_status"] \notin {Accepted, Rejected} =>
         nRecord["acceptance_date"] = None /\ nRecord["rejection_date"] = None

\* an accepted record whose Notification carries two date-shaped substrings
Witness_C14 ==
  /\ npc = "done"
  /\ nRecord["applicant_status"] = Accepted
  /\ \E i, j \in DateShapedPositions(RawNotification) :
       /\ i < j
       /\ SubSeq(RawNotification, i, i + 9) # SubSeq(RawNotification, j, j + 9)
       /\ nRecord["acceptance_date"] = SubSeq(RawNotification, i, i + 9)

\* =========================================================================
\* properties of clean_data (SpecClean)
\* =========================================================================

RECURSIVE RecordRows(_)
RecordRows(i) ==
  IF i > Len(rows) THEN {}
  ELSE IF rows[i].has THEN {i} \cup RecordRows(i + 2)
  ELSE RecordRows(i + 1)

\* the id segment of the link of row i
SegmentOfRow(i) == IdSegment(rows[i].href)

\* text is an optionally signed decimal integer
IsIntegerText(text) ==
  LET t == Strip(text)
      body == IF t # <<>> /\ Head(t) \in {"+", "-"} THEN Tail(t) ELSE t
  IN body # <<>> /\ \A k \in DOMAIN body : IsDigit(body[k])

\* C16 as stated: every StubRecord of one page has a positive integer id, and
\* no two StubRecords of the page share an id.
Orig_C16_PositiveUniqueIds ==
  ppc = "done" =>
    /\ \A i \in DOMAIN scanned : scanned[i].id > 0
    /\ \A i, j \in DOMAIN scanned : scanned[i].id = scanned[j].id => i = j

\* C18: a record row whose link carries a non-integer id segment gives no
\* StubRecord and no error, and the scan goes on with the rows after it: the
\* page's output has one stub per record row with an integer, non-zero
\* segment; a page holding only such a row gives the empty list.
Thm_C18_BadIdSkipped ==
  /\ ppc # "raised"
  /\ ppc = "done" =>
       /\ Len(scanned) =
            Cardinality({i \in RecordRows(1) :
                           IsIntegerText(SegmentOfRow(i))
                             /\ IntOf(SegmentOfRow(i)) # <<0>>})
       /\ (\A i \in RecordRows(1) : ~IsIntegerText(SegmentOfRow(i))) => scanned = <<>>

\* a record row with a non-integer segment, its badges row, then a record
\* row with an integer segment whose stub is the page's output
Witness_C18 ==
  /\ ppc = "done"
  /\ Len(rows) = 3
  /\ RecordRows(1) = {1, 3}
  /\ ~IsIntegerText(SegmentOfRow(1))
  /\ IsIntegerText(SegmentOfRow(3))
  /\ Len(scanned) = 1

\* =========================================================================
\* properties of _parse_badges_row (SpecBadges)
\* =========================================================================

\* the fields a step wrote: new keys and keys whose value differs
WrittenKeys(before, after) ==
  {k \in DOMAIN after : k \notin DOMAIN before \/ before[k] # after[k]}

\* the text after a prefix, without surrounding whitespace
AfterPrefix(text, prefix) == Strip(SubSeq(text, Len(prefix) + 1, Len(text)))

\* C17: each badge goes to at most one field; a text starting with "GRE AW"
\* sets only GRE AW and one starting with "GRE V" only GRE verbal, neither
\* ever GRE total; a text matching no rule changes no field.
Thm_C17_OneFieldPerBadge ==
  [][ bIdx' = bIdx + 1 =>
        LET text == badges[bIdx + 1]
            written == WrittenKeys(record_data, record_data')
        IN /\ Cardinality(written) <= 1
           /\ \A k \in DOMAIN record_data : k \in DOMAIN record_data'
           /\ StartsWith(text, GRE_AW) =>
                /\ written \subseteq {"GRE AW"}
                /\ record_data'["GRE AW"] = AfterPrefix(text, GRE_AW)
           /\ StartsWith(text, GRE_V) =>
                /\ written \subseteq {"GRE V Score"}
                /\ record_data'["GRE V Score"] = AfterPrefix(text, GRE_V)
           /\ (~TermMatch(text) /\ ~StartsWith(text, GRE_)) =>
                record_data' = record_data ]_vars

\* a row with a "GRE V" badge and a "GRE AW" badge, parsed: both fields are
\* set and GRE total is not
Witness_C17 ==
  /\ bIdx = Len(badges)
  /\ \E i, j \in DOMAIN badges :
       StartsWith(badges[i], GRE_V) /\ StartsWith(badges[j], GRE_AW)
  /\ DOMAIN record_data = {"GRE V Score", "GRE AW"}

\* =========================================================================
\* failures during a crawl (SpecCrawl)
\* =========================================================================

\* C19: no failure of a listing scan or of a detail fetch leaves
\* scrape_new_entries as an exception: the crawl goes on to return a list,
\* and the list is empty when a scan of the first batch raised.
Thm_C19_NoFailurePropagates ==
  /\ pc # "propagated"
  /\ (pc = "done" /\ target_count > 0
        /\ \E p \in PageRange(1, batch_size) : ListingOf(p).status = "raise") =>
       returned = <<>>

\* a crawl that returned after a scan of its first batch raised while another
\* page of that batch held stubs passing the watermark
Witness_C19 ==
  /\ pc = "done"
  /\ excCaught
  /\ page_num = 1
  /\ \E p \in PageRange(1, batch_size) : ListingOf(p).status = "raise"
  /\ \E p \in PageRange(1, batch_size) :
       FilterByMaxId(ListingOf(p).rows, max_id) # <<>>
  /\ returned = <<>>

\* positions of the stubs whose detail fetch succeeded
OkDetails == {i \in DOMAIN dfut : dfut[i] = "ok"}

BlocksFor(k) ==
  {i \in DOMAIN detail_page.blocks :
     /\ detail_page.blocks[i].dt /\ detail_page.blocks[i].dd
     /\ detail_page.blocks[i].key = k}

\* C21: a returned DetailRecord always carries Date Added, Term, GRE Score,
\* GRE V Score and GRE AW with the stub's values (null for a key the stub
\* lacks), whatever the detail page says under those labels; every other key
\* is there exactly when the detail page has a block for it and holds that
\* block's value (the last one's, were the label repeated); the stub is not
\* changed.
Thm_C21_StubOverlay ==
  /\ [](dpc = "done" /\ dResult # <<>> =>
          LET data == dResult[1].data IN
          /\ \A i \in DOMAIN OverlayKeys :
               /\ OverlayKeys[i].key \in DOMAIN data
               /\ data[OverlayKeys[i].key] =
                    IF OverlayKeys[i].from \in DOMAIN page_entry
                      THEN page_entry[OverlayKeys[i].from] ELSE None
          /\ \A k \in {"Program"} :
               /\ k \in DOMAIN data <=> BlocksFor(k) # {}
               /\ BlocksFor(k) # {} =>
                    data[k] = detail_page.blocks[
                                CHOOSE i \in BlocksFor(k) :
                                  \A j \in BlocksFor(k) : j <= i].value
          /\ DOMAIN data \subseteq
               {"Program"} \cup {OverlayKeys[i].key : i \in DOMAIN OverlayKeys})
  /\ [][page_entry' = page_entry]_vars

\* a record whose detail page gave a Term and a Program of its own while the
\* stub carried another Term and no GRE AW
Witness_C21 ==
  /\ dpc = "done"
  /\ dResult # <<>>
  /\ BlocksFor("Term") # {}
  /\ BlocksFor("Program") # {}
  /\ "term" \in DOMAIN page_entry
  /\ "GRE AW" \notin DOMAIN page_entry
  /\ dResult[1].data["Term"] = page_entry["term"]
  /\ dResult[1].data["GRE AW"] = None

\* =========================================================================
\* the scanning loop of a crawl (SpecCrawl)
\* =========================================================================

\* the first pages of the batches a crawl with this batch_size can run
BatchStarts == {b \in PageSpace : (b - 1) % batch_size = 0}

\* the first batch whose filtered stub list is empty (pages after MaxPage
\* have no rows, so there is one)
RECURSIVE FirstEmptyFrom(_)
FirstEmptyFrom(b) ==
  IF BatchOf(b) = <<>> THEN b ELSE FirstEmptyFrom(b + batch_size)

FirstEmptyBatch == FirstEmptyFrom(1)

\* the stubs of the batches before the first empty one
RECURSIVE StubsBefore(_)
StubsBefore(b) ==
  IF b <= 1 THEN <<>> ELSE StubsBefore(b - batch_size) \o BatchOf(b - batch_size)

\* C22: no page after the first batch with an empty filtered stub list is
\* ever scanned, whatever those pages hold; when the crawl stopped at that
\* batch, the stubs of the batches before it are what Detailing receives.
Thm_C22_StopAtFirstEmptyBatch ==
  LET first == FirstEmptyBatch IN
  /\ \A p \in PageSpace : p >= first + batch_size => fut[p] = "none"
  /\ (pc \in {"detail", "done"} /\ fut[first] # "none") =>
       /\ collected = Len(StubsBefore(first))
       /\ all_entries = Take(StubsBefore(first), target_count)
       /\ Len(dfut) = Len(all_entries)

\* a crawl with a watermark whose first one-page batch held only a stub at
\* the watermark: it stopped there although page 2 holds a newer stub
Witness_C22 ==
  /\ pc = "done"
  /\ batch_size = 1
  /\ target_count > 0
  /\ Truthy(max_id)
  /\ ListingOf(1).rows # <<>>
  /\ FirstEmptyBatch = 1
  /\ FilterByMaxId(ListingOf(2).rows, max_id) # <<>>
  /\ fut[1] = "done"
  /\ fut[2] = "none"

\* the batches that were submitted so far
BatchesRun == {b \in BatchStarts : fut[b] # "none"}

\* C23: when every fetch returns the crawl terminates; it runs at most
\* target_count batches, and it submits a listing page only while fewer than
\* target_count stubs are collected.
Thm_C23_Terminates ==
  /\ <>(pc = "done")
  /\ [](Cardinality(BatchesRun) <= target_count)
  /\ [][ (\E p \in PageSpace : fut[p] # "pending" /\ fut'[p] = "pending")
           => Len(all_entries) < target_count ]_vars

\* a finished crawl that ran as many batches as target_count allows, the
\* last of them empty
Witness_C23 ==
  /\ pc = "done"
  /\ target_count = 2
  /\ Cardinality(BatchesRun) = 2
  /\ Len(all_entries) = 1

\* the pages handed to the pool so far, and those a scan was started for
SubmittedPages == {p \in PageSpace : fut[p] # "none"}
ScannedPages == {p \in PageSpace : fut[p] \in {"running", "done", "raised"}}

\* C29 as stated: the scanned pages of a crawl are exactly the pages
\* 1 .. k*batch_size for the number k of batches run.
Orig_C29_ScannedPages ==
  pc = "done" => ScannedPages = 1..(Cardinality(BatchesRun) * batch_size)

\* C29 amended: the pages handed to the pool are exactly 1 .. k*batch_size
\* for the k batches run, each handed over once; each of them is scanned,
\* except a page cancelled before its scan started because an earlier page
\* of its batch raised; page_num moves, by batch_size, only after a batch
\* that added stubs.
Thm_C29_ScannedPages ==
  /\ []( /\ (page_num - 1) % batch_size = 0
         /\ SubmittedPages = 1..(Cardinality(BatchesRun) * batch_size)
         /\ pc = "done" =>
              \A p \in SubmittedPages :
                \/ p \in ScannedPages
                \/ /\ fut[p] = "cancelled"
                   /\ \E b \in BatchStarts :
                        \E q \in PageRange(b, batch_size) :
                          p \in PageRange(b, batch_size) /\ q < p /\ fut[q] = "raised" )
  /\ [][ /\ \A p \in PageSpace : (fut'[p] = "pending" /\ fut[p] # "pending")
                                   => fut[p] = "none"
         /\ page_num' # page_num =>
              /\ page_num' = page_num + batch_size
              /\ Len(all_entries') > Len(all_entries) ]_vars

\* a finished crawl that ran two batches of two pages
Witness_C29 ==
  /\ pc = "done"
  /\ batch_size = 2
  /\ Cardinality(BatchesRun) = 2
  /\ ScannedPages = 1..4

\* =========================================================================
\* the watermark 0 (SpecCrawl)
\* =========================================================================

\* the stubs of the batch starting at page `start` when nothing is filtered
UnfilteredBatch(start) ==
  IF \E p \in PageRange(start, batch_size) : ListingOf(p).status = "raise"
    THEN <<>>
    ELSE Flatten(PagesInOrder(start, batch_size))

\* what a crawl without a watermark collects, and the first page of the
\* batch it stops at
RECURSIVE UnfilteredCrawl(_, _)
UnfilteredCrawl(start, acc) ==
  IF Len(acc) >= target_count \/ start > LastPage \/ UnfilteredBatch(start) = <<>>
    THEN [stubs |-> acc, page |-> start]
    ELSE UnfilteredCrawl(start + batch_size, acc \o UnfilteredBatch(start))

Thm_C28_RejectKeepsFlag ==
  /\ [][ \A r \in Requests :
           (resp'[r] = 409 /\ resp[r] # 409) => (running /\ running') ]_vars
  /\ [][ (running /\ ~running') =>
           \E r \in Requests :
             /\ rpc[r] = "finally" /\ rpc'[r] = "done"
             /\ rkind[r] = "scrape"
             /\ ~sawBusy[r]
             /\ resp[r] # 409
             /\ ScrapeSteps[1] \in work[r] ]_vars
  /\ [](\A r \in Requests : resp[r] = 409 => rpc[r] = "done" /\ work[r] = {})

\* a /scrape and a /refresh_queries request were both answered 409 while a
\* crawl that holds the flag is under way
Witness_C28 ==
  /\ running
  /\ \E r1, r2, r3 \in Requests :
       /\ rkind[r1] = "scrape" /\ resp[r1] = 409
       /\ rkind[r2] = "refresh" /\ resp[r2] = 409
       /\ rpc[r3] = "scrape_new_entries"

\* =========================================================================
\* the row cursor of scrape_survey_page (SpecScanPage)
\* =========================================================================

\* C24: the cursor moves by one row over a row without a record link and by
\* two over a row with one, whether or not its id parses; the row after a
\* record row is therefore never read as a record row, and a stub is only
\* ever appended for a row that does not directly follow a record row.
Thm_C24_RowCursor ==
  /\ [][ rowIdx' # rowIdx =>
           /\ rowIdx < Len(rows)
           /\ rowIdx' = rowIdx + (IF rows[rowIdx + 1].has THEN 2 ELSE 1)
           /\ rows[rowIdx + 1].has =>
                /\ rowIdx + 1 \in RecordRows(1)
                /\ rowIdx \notin RecordRows(1) ]_vars
  /\ [][ scanned' # scanned =>
           /\ rows[rowIdx + 1].has
           /\ rowIdx + 1 \in RecordRows(1)
           /\ rowIdx \notin RecordRows(1)
           /\ rowIdx' = rowIdx + 2 ]_vars
  /\ [](ppc # "raised")

\* three rows that all hold a record link: the first one's id does not
\* parse, the second is taken as its badges row and gives no stub although
\* its link is good, the third starts the only record of the page
Witness_C24 ==
  /\ ppc = "done"
  /\ Len(rows) = 3
  /\ \A i \in DOMAIN rows : rows[i].has
  /\ ~IsIntegerText(SegmentOfRow(1))
  /\ SegmentOfRow(2) = <<"7">>
  /\ SegmentOfRow(3) = <<"8">>
  /\ scanned = << [id |-> 8] >>

\* =========================================================================
\* the field mapping of _build_record (SpecNormalize)
\* =========================================================================

\* the positions in a field's label list whose raw value in the DetailRecord
\* is present and non-empty after trimming
PresentLabels(pairs, labels) ==
  {k \in DOMAIN labels : Usable(PairsGet(pairs, labels[k]))}

\* C25 as stated: each field of the record _build_record returns holds the
\* value of the first label of its list that is present and non-empty after
\* trimming in the DetailRecord, and null when there is none; so
\* applicant_status is Decision's value when Decision is non-empty, else
\* Status's.
Orig_C25_FirstPresentLabel ==
  npc = "combine" =>
    \A f \in Fields :
      LET labels == LabelsOf(f)
          present == PresentLabels(nEntry.data, labels)
          first == CHOOSE k \in present : \A j \in present : k <= j
      IN nRecord[f] = IF present = {} THEN None
                      ELSE ExtractLabelText(Soup(nEntry.data, labels[first]),
                                            labels[first])

\* =========================================================================
\* the length and order of clean_data's result (SpecClean)
\* =========================================================================

\* C26: clean_data returns min(len(entries), target_count) records, and the
\* i-th of them is the normalization of the i-th entry, with that entry's
\* URL: the result is the head of the inputs' normalizations, in order.
Thm_C26_HeadInOrder ==
  cpc = "done" =>
    /\ Len(cResult) = (IF Len(raw_entries) < clean_target
                         THEN Len(raw_entries) ELSE clean_target)
    /\ \A i \in DOMAIN cResult :
         /\ cResult[i] = Normalize(raw_entries[i])
         /\ cResult[i]["URL"] = raw_entries[i].url

\* two entries with different URLs cleaned with target_count 1: the result
\* is the first entry's record alone
Witness_C26 ==
  /\ cpc = "done"
  /\ Len(raw_entries) = 2
  /\ clean_target = 1
  /\ raw_entries[1].url # raw_entries[2].url
  /\ Len(cResult) = 1
  /\ cResult[1]["URL"] = raw_entries[1].url

\* =========================================================================
\* successive scrape-then-load runs (SpecRuns)
\* =========================================================================

\* the ids a crawl collected earlier that are not in the table although a
\* greater id is
LeftBehind == {x \in found \ db : \E y \in db : y > x}

\* C30: the watermark of a crawl is the greatest persisted id, and a stub an
\* earlier crawl collected without it being persisted is not returned by a
\* crawl that starts once a greater id is persisted.
Thm_C30_LeftBehindNotReturned ==
  running =>
    /\ db # {} => max_id = <<MaxOf(db)>>
    /\ \A i \in DOMAIN returned : returned[i] \notin LeftBehind
    /\ \A i \in DOMAIN all_entries : all_entries[i] \notin LeftBehind

\* a crawl returned a record although one of the pages it scanned shows a
\* stub that an earlier crawl collected and did not persist, below a
\* persisted id
Witness_C30 ==
  /\ running
  /\ pc = "done"
  /\ returned # <<>>
  /\ \E x \in LeftBehind :
       \E p \in 1..MaxPage :
         /\ fut[p] = "done"
         /\ \E i \in DOMAIN ListingOf(p).rows : ListingOf(p).rows[i] = x

====
